---- MODULE Spec2Model ----
(***************************************************************************)
(* Reservas de libras: periodos de envio con capacidad, reservas repartidas *)
(* entre periodos, maquina de estados de la reserva y cierre de periodos.   *)
(*                                                                         *)
(* Unidades: las libras de una reserva son decimales de dos cifras y se     *)
(* llevan en centesimas de libra (1 lb = Centesimas); librasTotales de un   *)
(* periodo es un entero en libras, como en la base de datos.  Los cuerpos   *)
(* de las peticiones traen las libras en milesimas, antes de parseDecimal.  *)
(* Las fechas son dias enteros.  Un campo opcional es << >> (ausente) o     *)
(* <<v>>; una fecha de seguimiento es {} (null) o {dia}.                    *)
(***************************************************************************)
EXTENDS Integers, Sequences, FiniteSets, Bags, TLC

VARIABLES hoy, periodos, reservas, nextId, historicoPeriodos,
          historicoReservas, res, procs

vars == <<hoy, periodos, reservas, nextId, historicoPeriodos,
          historicoReservas, res, procs>>

store == <<periodos, reservas, nextId, historicoPeriodos, historicoReservas>>

----------------------------------------------------------------------------
(* Cotas del modelo *)

MaxPeriodos == 2

MaxReservas == 2

MaxHistoricos == 1

MaxDia == 2

(* Constantes del programa *)

Centesimas == 100

MinChunk == 1

ADMIN_PRINCIPAL == "ADMIN_PRINCIPAL"

USUARIO == "USUARIO"

PENDIENTE == "PENDIENTE"

CONFIRMADA == "CONFIRMADA"

ENVIADA == "ENVIADA"

ENTREGADA == "ENTREGADA"

CANCELADA == "CANCELADA"

STATUS_RESERVA == {PENDIENTE, CONFIRMADA, ENVIADA, ENTREGADA, CANCELADA}

StatusInicial == PENDIENTE

NULO == "null"

----------------------------------------------------------------------------
(* Actores autenticados: el usuario 1 es el administrador. *)

Actores == {1, 2, 3}

Rol(actor) == IF actor = 1 THEN ADMIN_PRINCIPAL ELSE USUARIO

Presente(x) == x # << >>

Valor(x) == x[1]

Min(a, b) == IF a <= b THEN a ELSE b

\* Math.round(parsed * 100) / 100 sobre un valor positivo en milesimas
parseDecimal(milesimas) == (milesimas + 5) \div 10

RECURSIVE SumaLibras(_, _)
SumaLibras(rs, ids) ==
    IF ids = {} THEN 0
    ELSE LET i == CHOOSE x \in ids : TRUE
         IN rs[i].libras + SumaLibras(rs, ids \ {i})

\* variante defectuosa: no filtra las canceladas
ReservasNoCanceladas_ConCanceladas(rs, pid) ==
    {i \in DOMAIN rs : rs[i].periodoId = pid}

\* include: { reservas: { where: { status: { notIn: ['CANCELADA'] } } } }
ReservasNoCanceladas(rs, pid) ==
    {i \in DOMAIN rs : rs[i].periodoId = pid /\ rs[i].status # CANCELADA}

LibrasReservadas(rs, pid) == SumaLibras(rs, ReservasNoCanceladas(rs, pid))

\* periodo.librasTotales - librasReservadas, en centesimas
Disponibles(ps, rs, pid) ==
    ps[pid].librasTotales * Centesimas - LibrasReservadas(rs, pid)

\* variante defectuosa: suma tambien las reservas canceladas
calcularLibrasDisponibles_ConCanceladas(ps, rs, pid, excludeReservaId) ==
    ps[pid].librasTotales * Centesimas
      - SumaLibras(rs, {i \in DOMAIN rs : rs[i].periodoId = pid} \ {excludeReservaId})

calcularLibrasDisponibles(ps, rs, pid, excludeReservaId) ==
    ps[pid].librasTotales * Centesimas
      - SumaLibras(rs, ReservasNoCanceladas(rs, pid) \ {excludeReservaId})

----------------------------------------------------------------------------
(* createReserva: periodos candidatos y plan de reservas *)

\* variante defectuosa: olvida el filtro fechaEnvio >= fechaReserva
PeriodosActivos_SinFecha(ps, fechaReserva) ==
    {pid \in DOMAIN ps : ps[pid].isActive}

\* where: { isActive: true, fechaEnvio: { gte: fechaReserva } }
PeriodosActivos(ps, fechaReserva) ==
    {pid \in DOMAIN ps : ps[pid].isActive /\ ps[pid].fechaEnvio >= fechaReserva}

\* orderBy: { fechaEnvio: 'asc' }; el orden entre fechas iguales no esta fijado
Ordenados(ps, S) ==
    {s \in [1..Cardinality(S) -> S] :
        /\ \A i, j \in DOMAIN s : i # j => s[i] # s[j]
        /\ \A i, j \in DOMAIN s :
              i < j => ps[s[i]].fechaEnvio <= ps[s[j]].fechaEnvio}

\* periodosActivos segun venga o no periodoId en el cuerpo
Candidatos(ps, body) ==
    IF Presente(body.periodoId)
    THEN IF Valor(body.periodoId) \in DOMAIN ps /\ ps[Valor(body.periodoId)].isActive
         THEN {<<Valor(body.periodoId)>>}
         ELSE {<< >>}
    ELSE Ordenados(ps, PeriodosActivos(ps, body.fecha))

\* variante defectuosa: el primer tramo conserva siempre la fecha pedida
FechaParaPeriodo_FechaPedida(plan, fechaReserva, fechaEnvioPeriodo) ==
    IF Len(plan) = 0 THEN fechaReserva ELSE fechaEnvioPeriodo

\* fechaReservaParaPeriodo
FechaParaPeriodo(plan, fechaReserva, fechaEnvioPeriodo) ==
    IF Len(plan) = 0 /\ fechaReserva = fechaEnvioPeriodo
    THEN fechaReserva
    ELSE fechaEnvioPeriodo

\* variante defectuosa: toma todo lo disponible sin acotarlo a lo que falta
LibrasParaEstePeriodo_SinMin(librasRestantes, librasDisponibles) ==
    IF librasDisponibles >= MinChunk THEN librasDisponibles ELSE 0

\* librasParaEstePeriodo para un periodo con librasDisponibles; 0 si se salta
LibrasParaEstePeriodo(librasRestantes, librasDisponibles) ==
    IF librasDisponibles > 0 /\ Min(librasRestantes, librasDisponibles) >= MinChunk
    THEN Min(librasRestantes, librasDisponibles)
    ELSE 0

RECURSIVE PlanDesde(_, _, _, _, _, _, _)
PlanDesde(ps, rs, cands, k, librasRestantes, plan, fechaReserva) ==
    IF k > Len(cands) \/ librasRestantes <= 0
    THEN [plan |-> plan, librasRestantes |-> librasRestantes]
    ELSE LET pid  == cands[k]
             para == LibrasParaEstePeriodo(librasRestantes, Disponibles(ps, rs, pid))
         IN IF para > 0
            THEN PlanDesde(ps, rs, cands, k + 1, librasRestantes - para,
                           Append(plan, [libras |-> para, periodoId |-> pid,
                                         fecha |-> FechaParaPeriodo(plan, fechaReserva,
                                                                    ps[pid].fechaEnvio)]),
                           fechaReserva)
            ELSE PlanDesde(ps, rs, cands, k + 1, librasRestantes, plan, fechaReserva)

\* el bucle que arma planDeReservas sin crear nada
PlanDeReservas(ps, rs, cands, librasDecimal, fechaReserva) ==
    PlanDesde(ps, rs, cands, 1, librasDecimal, << >>, fechaReserva)

\* variante defectuosa: no valida las libras sin asignar antes de crear
Planificar_SinValidar(ps, rs, body, cands) ==
    LET r == PlanDeReservas(ps, rs, cands, parseDecimal(body.libras), body.fecha)
    IN IF Len(cands) = 0
       THEN [plan |-> << >>,
             error |-> IF Presente(body.periodoId) THEN "PERIODO_NO_ACTIVO"
                       ELSE "SIN_PERIODOS", maximo |-> 0, faltan |-> 0]
       ELSE [plan |-> r.plan, error |-> "NINGUNO", maximo |-> 0, faltan |-> 0]

\* resultado de la fase de lectura y planificacion de createReserva
Planificar(ps, rs, body, cands) ==
    LET librasDecimal == parseDecimal(body.libras)
        r == PlanDeReservas(ps, rs, cands, librasDecimal, body.fecha)
    IN IF Len(cands) = 0
       THEN [plan |-> << >>,
             error |-> IF Presente(body.periodoId) THEN "PERIODO_NO_ACTIVO"
                       ELSE "SIN_PERIODOS", maximo |-> 0, faltan |-> 0]
       ELSE IF r.librasRestantes > 0
       THEN [plan |-> << >>, error |-> "SIN_CAPACIDAD",
             maximo |-> librasDecimal - r.librasRestantes,
             faltan |-> r.librasRestantes]
       ELSE [plan |-> r.plan, error |-> "NINGUNO", maximo |-> 0, faltan |-> 0]

\* observaciones de la fila index (desde 1) del plan
ObservacionesDeParte(index, observaciones) ==
    LET texto == IF Presente(observaciones) THEN Valor(observaciones) ELSE ""
    IN IF index = 1
       THEN IF texto = "" THEN NULO ELSE texto
       ELSE "Reserva dividida - Parte " \o ToString(index) \o ". " \o texto

\* variante defectuosa: cada fila lleva las libras pedidas y no las de su parte
NuevaReserva_LibrasPedidas(actor, body, plan, index) ==
    [libras |-> parseDecimal(body.libras),
     periodoId |-> plan[index].periodoId,
     status |-> StatusInicial,
     fechaEnvio |-> {},
     fecha |-> plan[index].fecha,
     observaciones |-> ObservacionesDeParte(index, body.observaciones),
     userId |-> actor,
     estado |-> body.estado,
     fechaConfirmacion |-> {},
     fechaEntrega |-> {}]

\* data de prisma.reserva.create para la entrada index del plan
NuevaReserva(actor, body, plan, index) ==
    [libras |-> plan[index].libras,
     periodoId |-> plan[index].periodoId,
     status |-> StatusInicial,
     fechaEnvio |-> {},
     fecha |-> plan[index].fecha,
     observaciones |-> ObservacionesDeParte(index, body.observaciones),
     userId |-> actor,
     estado |-> body.estado,
     fechaConfirmacion |-> {},
     fechaEntrega |-> {}]

\* la tabla reservas tras crear las filas first..Len(plan) del plan
InsertarPlan(rs, id, actor, body, plan) ==
    [i \in DOMAIN rs \cup (id .. id + Len(plan) - 1) |->
        IF i \in DOMAIN rs THEN rs[i] ELSE NuevaReserva(actor, body, plan, i - id + 1)]

----------------------------------------------------------------------------
(* Maquina de estados de la reserva *)

\* variante defectuosa: PENDIENTE puede saltar a ENVIADA
validTransitions_ConSalto(currentStatus) ==
    CASE currentStatus = PENDIENTE  -> {CONFIRMADA, ENVIADA, CANCELADA}
      [] currentStatus = CONFIRMADA -> {ENVIADA, CANCELADA}
      [] currentStatus = ENVIADA    -> {ENTREGADA, CANCELADA}
      [] OTHER                      -> {}

validTransitions(currentStatus) ==
    CASE currentStatus = PENDIENTE  -> {CONFIRMADA, CANCELADA}
      [] currentStatus = CONFIRMADA -> {ENVIADA, CANCELADA}
      [] currentStatus = ENVIADA    -> {ENTREGADA, CANCELADA}
      [] OTHER                      -> {}

canChangeReservaStatus(userRole, currentStatus, newStatus) ==
    IF currentStatus = ENTREGADA \/ currentStatus = CANCELADA
    THEN [allowed |-> FALSE, reason |-> "ESTADO_FINAL"]
    ELSE IF currentStatus = newStatus
    THEN [allowed |-> FALSE, reason |-> "MISMO_ESTADO"]
    ELSE IF userRole = ADMIN_PRINCIPAL
    THEN IF newStatus \in validTransitions(currentStatus)
         THEN [allowed |-> TRUE, reason |-> "NINGUNO"]
         ELSE [allowed |-> FALSE, reason |-> "TRANSICION_INVALIDA"]
    ELSE IF userRole = USUARIO
    THEN IF currentStatus = CONFIRMADA /\ newStatus = ENVIADA
         THEN [allowed |-> TRUE, reason |-> "NINGUNO"]
         ELSE [allowed |-> FALSE, reason |-> "SOLO_CONFIRMADA_A_ENVIADA"]
    ELSE [allowed |-> FALSE, reason |-> "SIN_PERMISOS"]

\* variante defectuosa: CANCELADA tambien sella fechaEntrega
ConStatus_SellaCancelada(r, status, fechaActual) ==
    [r EXCEPT !.status = status,
              !.fechaConfirmacion = IF status = CONFIRMADA THEN {fechaActual} ELSE @,
              !.fechaEnvio = IF status = ENVIADA THEN {fechaActual} ELSE @,
              !.fechaEntrega = IF status \in {ENTREGADA, CANCELADA}
                               THEN {fechaActual} ELSE @]

\* updateData de updateReservaStatus aplicado a la fila
ConStatus(r, status, fechaActual) ==
    [r EXCEPT !.status = status,
              !.fechaConfirmacion = IF status = CONFIRMADA THEN {fechaActual} ELSE @,
              !.fechaEnvio = IF status = ENVIADA THEN {fechaActual} ELSE @,
              !.fechaEntrega = IF status = ENTREGADA THEN {fechaActual} ELSE @]

\* updateData de updateReserva aplicado a la fila
ConCambios(r, body) ==
    [r EXCEPT !.libras = IF Presente(body.libras) THEN parseDecimal(Valor(body.libras)) ELSE @,
              !.estado = IF Presente(body.estado) /\ Valor(body.estado) # ""
                         THEN Valor(body.estado) ELSE @,
              !.observaciones = IF Presente(body.observaciones)
                                THEN Valor(body.observaciones) ELSE @,
              !.status = IF Presente(body.status) THEN Valor(body.status) ELSE @]

\* variante defectuosa: no excluye las libras actuales de la propia reserva
LibrasExcedidas_SinExcluir(ps, rs, rid, body) ==
    /\ Presente(body.libras)
    /\ parseDecimal(Valor(body.libras)) >
          calcularLibrasDisponibles(ps, rs, rs[rid].periodoId, 0)

\* la validacion de disponibilidad de updateReserva rechaza las libras pedidas
LibrasExcedidas(ps, rs, rid, body) ==
    /\ Presente(body.libras)
    /\ parseDecimal(Valor(body.libras)) >
          calcularLibrasDisponibles(ps, rs, rs[rid].periodoId, rid)

\* variante defectuosa: no comprueba el propietario
NoEsPropia_SinComprobar(actor, r) == FALSE

\* role === USUARIO && reserva.userId !== req.user.id
NoEsPropia(actor, r) == Rol(actor) = USUARIO /\ r.userId # actor

----------------------------------------------------------------------------
(* Periodos *)

\* la guarda de reduccion de updatePeriodo rechaza el nuevo total
ReduccionRechazada(periodo, librasReservadas, body) ==
    /\ Presente(body.librasTotales)
    /\ Valor(body.librasTotales) < periodo.librasTotales
    /\ Valor(body.librasTotales) * Centesimas < librasReservadas

\* variante defectuosa: la actualizacion vuelve a activar el periodo
PeriodoConCambios_Reabre(periodo, body) ==
    [periodo EXCEPT
        !.librasTotales = IF Presente(body.librasTotales)
                          THEN Valor(body.librasTotales) ELSE @,
        !.fechaEnvio = IF Presente(body.fechaEnvio) THEN Valor(body.fechaEnvio) ELSE @,
        !.isActive = TRUE]

\* updateData de updatePeriodo aplicado a la fila
PeriodoConCambios(periodo, body) ==
    [periodo EXCEPT
        !.librasTotales = IF Presente(body.librasTotales)
                          THEN Valor(body.librasTotales) ELSE @,
        !.fechaEnvio = IF Presente(body.fechaEnvio) THEN Valor(body.fechaEnvio) ELSE @]

\* variante defectuosa: las estadisticas cuentan tambien las canceladas
HistoricoDe_ConCanceladas(periodo, rs, ids) ==
    [librasTotales |-> periodo.librasTotales,
     fechaEnvio |-> periodo.fechaEnvio,
     librasDisponibles |-> periodo.librasTotales * Centesimas - SumaLibras(rs, ids),
     librasReservadas |-> SumaLibras(rs, ids),
     totalReservas |-> Cardinality(ids),
     totalUsuarios |-> Cardinality({rs[i].userId : i \in ids})]

\* estadisticas de closePeriodo sobre el periodo leido con sus reservas
HistoricoDe(periodo, rs, ids) ==
    LET reservasActivas == {i \in ids : rs[i].status # CANCELADA}
        librasReservadas == SumaLibras(rs, reservasActivas)
    IN [librasTotales |-> periodo.librasTotales,
        fechaEnvio |-> periodo.fechaEnvio,
        librasDisponibles |-> periodo.librasTotales * Centesimas - librasReservadas,
        librasReservadas |-> librasReservadas,
        totalReservas |-> Cardinality(reservasActivas),
        totalUsuarios |-> Cardinality({rs[i].userId : i \in reservasActivas})]

\* data de prisma.historicoReserva.create para una reserva del periodo
HistoricoReservaDe(periodo, r, id) ==
    [libras |-> r.libras,
     status |-> r.status,
     fecha |-> r.fecha,
     observaciones |-> r.observaciones,
     userId |-> r.userId,
     estado |-> r.estado,
     periodoFechaEnvio |-> periodo.fechaEnvio,
     reservaOriginalId |-> id]

RECURSIVE ArchivarReservas(_, _, _, _)
ArchivarReservas(hist, periodo, rs, ids) ==
    IF ids = {} THEN hist
    ELSE LET i == CHOOSE x \in ids : TRUE
         IN ArchivarReservas(hist (+) SetToBag({HistoricoReservaDe(periodo, rs[i], i)}),
                             periodo, rs, ids \ {i})

ReservasDePeriodo(rs, pid) == {i \in DOMAIN rs : rs[i].periodoId = pid}

\* prisma.reserva.deleteMany({ where: { periodoId } })
SinReservasDePeriodo(rs, pid) ==
    [i \in DOMAIN rs \ ReservasDePeriodo(rs, pid) |-> rs[i]]

----------------------------------------------------------------------------
(* Respuestas HTTP.  res guarda la ultima respuesta de las operaciones que   *)
(* la especificacion observa (obs); las demas dejan res en NoObservada.      *)

NoObservada ==
    [actor |-> 0, body |-> << >>, error |-> "NINGUNO", maximo |-> 0, faltan |-> 0,
     id |-> 0, op |-> "otra", http |-> 0,
     creadas |-> << >>, candidatos |-> << >>, valor |-> 0]

Respuesta(obs, op, actor, id, body, http, error) ==
    IF op \in obs
    THEN [NoObservada EXCEPT !.op = op, !.actor = actor, !.id = id, !.body = body,
                             !.http = http, !.error = error]
    ELSE NoObservada

----------------------------------------------------------------------------
(* Peticiones que el modelo enumera *)

Fechas == {1, 2}

CreatePeriodoBodies == [librasTotales : {1}, fechaEnvio : Fechas]

UpdatePeriodoBodies == [librasTotales : {<<1>>, <<2>>}, fechaEnvio : {<< >>}]

\* el usuario 2 reserva para FL sin observaciones, el 3 para TX con una nota
CreateReservaRequests ==
    [actor : {2}, libras : {504, 1000, 1500}, periodoId : {<< >>}, fecha : Fechas,
     observaciones : {<< >>}, estado : {"FL"}]
      \cup [actor : {3}, libras : {1000}, periodoId : {<< >>, <<1>>, <<2>>}, fecha : {1},
            observaciones : {<<"nota">>}, estado : {"TX"}]

UpdateReservaBodies ==
    [libras : {<<504>>, <<1000>>, <<1500>>}, status : {<< >>},
     observaciones : {<< >>}, estado : {<< >>}]
      \cup [libras : {<< >>}, status : {<<PENDIENTE>>, <<CANCELADA>>}, observaciones : {<< >>},
            estado : {<< >>}]

----------------------------------------------------------------------------
(* Estado inicial: base de datos vacia *)

Init ==
    /\ hoy = 1
    /\ periodos = << >>
    /\ reservas = << >>
    /\ nextId = 1
    /\ historicoPeriodos = << >>
    /\ historicoReservas = EmptyBag
    /\ res = NoObservada
    /\ procs = << >>

----------------------------------------------------------------------------
(* Peticiones de periodos, cada una ejecutada de principio a fin *)

CreatePeriodo(obs, actor, body) ==
    /\ UNCHANGED <<hoy, reservas, nextId, historicoPeriodos, historicoReservas, procs>>
    /\ IF Rol(actor) # ADMIN_PRINCIPAL
       THEN /\ res' = Respuesta(obs, "createPeriodo", actor, 0, body, 403, "FORBIDDEN")
            /\ UNCHANGED periodos
       ELSE IF body.fechaEnvio < hoy
       THEN /\ res' = Respuesta(obs, "createPeriodo", actor, 0, body, 400, "FECHA_PASADA")
            /\ UNCHANGED periodos
       ELSE /\ Len(periodos) < MaxPeriodos
            /\ periodos' = Append(periodos, [librasTotales |-> body.librasTotales,
                                             isActive |-> TRUE,
                                             fechaEnvio |-> body.fechaEnvio])
            /\ res' = Respuesta(obs, "createPeriodo", actor, Len(periodos) + 1, body,
                                201, "NINGUNO")

UpdatePeriodo(obs, actor, pid, body) ==
    /\ UNCHANGED <<hoy, reservas, nextId, historicoPeriodos, historicoReservas, procs>>
    /\ IF Rol(actor) # ADMIN_PRINCIPAL
       THEN /\ res' = Respuesta(obs, "updatePeriodo", actor, pid, body, 403, "FORBIDDEN")
            /\ UNCHANGED periodos
       ELSE IF pid \notin DOMAIN periodos
       THEN /\ res' = Respuesta(obs, "updatePeriodo", actor, pid, body, 404,
                                "PERIODO_NOT_FOUND")
            /\ UNCHANGED periodos
       ELSE IF ReduccionRechazada(periodos[pid], LibrasReservadas(reservas, pid), body)
       THEN /\ res' = Respuesta(obs, "updatePeriodo", actor, pid, body, 400, "REDUCCION")
            /\ UNCHANGED periodos
       ELSE /\ periodos' = [periodos EXCEPT ![pid] = PeriodoConCambios(@, body)]
            /\ res' = Respuesta(obs, "updatePeriodo", actor, pid, body, 200, "NINGUNO")

ClosePeriodo(obs, actor, pid) ==
    /\ UNCHANGED <<hoy, nextId, procs>>
    /\ IF Rol(actor) # ADMIN_PRINCIPAL
       THEN /\ res' = Respuesta(obs, "closePeriodo", actor, pid, << >>, 403, "FORBIDDEN")
            /\ UNCHANGED <<periodos, reservas, historicoPeriodos, historicoReservas>>
       ELSE IF pid \notin DOMAIN periodos
       THEN /\ res' = Respuesta(obs, "closePeriodo", actor, pid, << >>, 404,
                                "PERIODO_NOT_FOUND")
            /\ UNCHANGED <<periodos, reservas, historicoPeriodos, historicoReservas>>
       ELSE /\ Len(historicoPeriodos) < MaxHistoricos
            /\ historicoPeriodos' =
                 Append(historicoPeriodos,
                        HistoricoDe(periodos[pid], reservas, ReservasDePeriodo(reservas, pid)))
            /\ historicoReservas' =
                 ArchivarReservas(historicoReservas, periodos[pid], reservas,
                                  ReservasDePeriodo(reservas, pid))
            /\ reservas' = SinReservasDePeriodo(reservas, pid)
            /\ periodos' = [periodos EXCEPT ![pid].isActive = FALSE]
            /\ res' = Respuesta(obs, "closePeriodo", actor, pid, << >>, 200, "NINGUNO")

----------------------------------------------------------------------------
(* Peticiones de reservas, cada una ejecutada de principio a fin *)

CreateReserva(obs, actor, body, cands) ==
    LET r == Planificar(periodos, reservas, body, cands)
        base == Respuesta(obs, "createReserva", actor, 0, body,
                          IF r.error = "NINGUNO" THEN 201 ELSE 400, r.error)
        respuesta == IF "createReserva" \in obs
                     THEN [base EXCEPT
                             !.creadas = [k \in 1..Len(r.plan) |-> nextId + k - 1],
                             !.candidatos = cands,
                             !.maximo = r.maximo,
                             !.faltan = r.faltan]
                     ELSE base
    IN /\ cands \in Candidatos(periodos, body)
       /\ UNCHANGED <<hoy, periodos, historicoPeriodos, historicoReservas, procs>>
       /\ res' = respuesta
       /\ IF r.error # "NINGUNO"
          THEN UNCHANGED <<reservas, nextId>>
          ELSE /\ nextId + Len(r.plan) - 1 <= MaxReservas
               /\ reservas' = InsertarPlan(reservas, nextId, actor, body, r.plan)
               /\ nextId' = nextId + Len(r.plan)

UpdateReserva(obs, actor, rid, body) ==
    /\ UNCHANGED <<hoy, periodos, nextId, historicoPeriodos, historicoReservas, procs>>
    /\ IF rid \notin DOMAIN reservas
       THEN /\ res' = Respuesta(obs, "updateReserva", actor, rid, body, 404,
                                "RESERVA_NOT_FOUND")
            /\ UNCHANGED reservas
       ELSE IF NoEsPropia(actor, reservas[rid])
       THEN /\ res' = Respuesta(obs, "updateReserva", actor, rid, body, 403,
                                "NO_PUEDE_EDITAR_RESERVA")
            /\ UNCHANGED reservas
       ELSE IF LibrasExcedidas(periodos, reservas, rid, body)
       THEN /\ res' = Respuesta(obs, "updateReserva", actor, rid, body, 400, "SIN_CAPACIDAD")
            /\ UNCHANGED reservas
       ELSE /\ reservas' = [reservas EXCEPT ![rid] = ConCambios(@, body)]
            /\ res' = Respuesta(obs, "updateReserva", actor, rid, body, 200, "NINGUNO")

\* variante defectuosa: un USUARIO solo puede cambiar el status de sus reservas
UpdateReservaStatus_SoloPropias(obs, actor, rid, status) ==
    /\ UNCHANGED <<hoy, periodos, nextId, historicoPeriodos, historicoReservas, procs>>
    /\ IF rid \notin DOMAIN reservas
       THEN /\ res' = Respuesta(obs, "updateReservaStatus", actor, rid, status, 404,
                                "RESERVA_NOT_FOUND")
            /\ UNCHANGED reservas
       ELSE LET canChange == canChangeReservaStatus(Rol(actor), reservas[rid].status, status)
            IN IF NoEsPropia(actor, reservas[rid]) \/ ~canChange.allowed
               THEN /\ res' = Respuesta(obs, "updateReservaStatus", actor, rid, status, 400,
                                        canChange.reason)
                    /\ UNCHANGED reservas
               ELSE /\ reservas' = [reservas EXCEPT ![rid] = ConStatus(@, status, hoy)]
                    /\ res' = Respuesta(obs, "updateReservaStatus", actor, rid, status, 200,
                                        "NINGUNO")

UpdateReservaStatus(obs, actor, rid, status) ==
    /\ UNCHANGED <<hoy, periodos, nextId, historicoPeriodos, historicoReservas, procs>>
    /\ IF rid \notin DOMAIN reservas
       THEN /\ res' = Respuesta(obs, "updateReservaStatus", actor, rid, status, 404,
                                "RESERVA_NOT_FOUND")
            /\ UNCHANGED reservas
       ELSE LET canChange == canChangeReservaStatus(Rol(actor), reservas[rid].status, status)
            IN IF ~canChange.allowed
               THEN /\ res' = Respuesta(obs, "updateReservaStatus", actor, rid, status, 400,
                                        canChange.reason)
                    /\ UNCHANGED reservas
               ELSE /\ reservas' = [reservas EXCEPT ![rid] = ConStatus(@, status, hoy)]
                    /\ res' = Respuesta(obs, "updateReservaStatus", actor, rid, status, 200,
                                        "NINGUNO")

DeleteReserva(obs, actor, rid) ==
    /\ UNCHANGED <<hoy, periodos, nextId, historicoPeriodos, historicoReservas, procs>>
    /\ IF rid \notin DOMAIN reservas
       THEN /\ res' = Respuesta(obs, "deleteReserva", actor, rid, << >>, 404,
                                "RESERVA_NOT_FOUND")
            /\ UNCHANGED reservas
       ELSE IF NoEsPropia(actor, reservas[rid])
       THEN /\ res' = Respuesta(obs, "deleteReserva", actor, rid, << >>, 403,
                                "NO_PUEDE_ELIMINAR_RESERVA")
            /\ UNCHANGED reservas
       ELSE /\ reservas' = [i \in DOMAIN reservas \ {rid} |-> reservas[i]]
            /\ res' = Respuesta(obs, "deleteReserva", actor, rid, << >>, 200, "NINGUNO")

GetReservaById(obs, actor, rid) ==
    /\ UNCHANGED <<hoy, store, procs>>
    /\ res' = IF rid \notin DOMAIN reservas
              THEN Respuesta(obs, "getReservaById", actor, rid, << >>, 404,
                             "RESERVA_NOT_FOUND")
              ELSE IF NoEsPropia(actor, reservas[rid])
              THEN Respuesta(obs, "getReservaById", actor, rid, << >>, 403,
                             "INSUFFICIENT_PERMISSIONS")
              ELSE Respuesta(obs, "getReservaById", actor, rid, << >>, 200, "NINGUNO")

\* la consulta de libras disponibles de un periodo; excludeReservaId = 0 si
\* no se excluye ninguna reserva
CalcularLibrasDisponibles(obs, pid, excludeReservaId) ==
    /\ UNCHANGED <<hoy, store, procs>>
    /\ res' = IF pid \notin DOMAIN periodos
              THEN Respuesta(obs, "calcularLibrasDisponibles", 0, pid,
                             <<excludeReservaId>>, 404, "PERIODO_NOT_FOUND")
              ELSE IF "calcularLibrasDisponibles" \in obs
              THEN [Respuesta(obs, "calcularLibrasDisponibles", 0, pid,
                              <<excludeReservaId>>, 200, "NINGUNO")
                      EXCEPT !.valor = calcularLibrasDisponibles(periodos, reservas, pid,
                                                                 excludeReservaId)]
              ELSE NoObservada

----------------------------------------------------------------------------
(* Especificacion secuencial: las peticiones se atienden de una en una *)

PeriodoIds == 1..MaxPeriodos

ReservaIds == 1..MaxReservas

BodyDe(req) ==
    [libras |-> req.libras, periodoId |-> req.periodoId, fecha |-> req.fecha,
     observaciones |-> req.observaciones, estado |-> req.estado]

Peticion(obs) ==
    \/ \E actor \in Actores, body \in CreatePeriodoBodies :
          CreatePeriodo(obs, actor, body)
    \/ \E actor \in Actores, pid \in PeriodoIds, body \in UpdatePeriodoBodies :
          UpdatePeriodo(obs, actor, pid, body)
    \/ \E actor \in Actores, pid \in PeriodoIds : ClosePeriodo(obs, actor, pid)
    \/ \E req \in CreateReservaRequests :
          \E cands \in Candidatos(periodos, BodyDe(req)) :
             CreateReserva(obs, req.actor, BodyDe(req), cands)
    \/ \E actor \in Actores, rid \in ReservaIds, body \in UpdateReservaBodies :
          UpdateReserva(obs, actor, rid, body)
    \/ \E actor \in Actores, rid \in ReservaIds :
          UpdateReservaStatus(obs, actor, rid, CANCELADA)
    \/ \E actor \in Actores, rid \in ReservaIds : DeleteReserva(obs, actor, rid)

Next == Peticion({})

Spec == Init /\ [][Next]_vars

NextCrear == Peticion({"createReserva"})

SpecCrear == Init /\ [][NextCrear]_vars

NextCerrar == Peticion({"closePeriodo"})

SpecCerrar == Init /\ [][NextCerrar]_vars

NextPeriodo == Peticion({"updatePeriodo"})

SpecPeriodo == Init /\ [][NextPeriodo]_vars

----------------------------------------------------------------------------
(* Especificacion concurrente.  Cada peticion en curso es un proceso; cada   *)
(* paso es una llamada a prisma (un await) con el codigo sincrono que la     *)
(* sigue.  Ningun controlador abre una transaccion, asi que entre dos pasos  *)
(* de una peticion pueden ejecutarse pasos de otra.                          *)

NProcs == 2

Procs == 1..NProcs

Inactivo ==
    [actor |-> 0, body |-> << >>, plan |-> << >>, error |-> "NINGUNO", id |-> 0,
     op |-> "ninguna", http |-> 0, creadas |-> << >>, pc |-> "inactivo", leido |-> 0]

\* la peticion termino y respondio
Fin(proc, http, error) == [proc EXCEPT !.pc = "fin", !.http = http, !.error = error]

\* dos periodos activos de 2 lb y una reserva de 0.50 lb del usuario 2 en el
\* segundo, como quedan tras createPeriodo, updatePeriodo y createReserva
InitConc ==
    /\ hoy = 1
    /\ periodos = <<[librasTotales |-> 2, isActive |-> TRUE, fechaEnvio |-> 1],
                    [librasTotales |-> 2, isActive |-> TRUE, fechaEnvio |-> 2]>>
    /\ reservas = <<NuevaReserva(2, [observaciones |-> << >>, estado |-> "FL"],
                                 <<[libras |-> 50, periodoId |-> 2, fecha |-> 2]>>, 1)>>
    /\ nextId = 2
    /\ historicoPeriodos = << >>
    /\ historicoReservas = EmptyBag
    /\ res = NoObservada
    /\ procs = [p \in Procs |-> Inactivo]

CreateReservaConcRequests ==
    [actor : {3}, libras : {1000, 1500}, periodoId : {<< >>, <<1>>}, fecha : {1},
     observaciones : {<< >>}, estado : {"TX"}]

UpdatePeriodoConcBodies == [librasTotales : {<<1>>}, fechaEnvio : {<< >>}]

UpdateReservaConcBodies ==
    [libras : {<<1500>>}, status : {<< >>}, observaciones : {<< >>}, estado : {<< >>}]

\* createReserva: findFirst / findMany con sus reservas, y el plan
CR_Leer(p, actor, body) ==
    \E cands \in Candidatos(periodos, body) :
       LET r == Planificar(periodos, reservas, body, cands)
           proc == [procs[p] EXCEPT !.op = "createReserva", !.actor = actor,
                                    !.body = body]
       IN /\ procs[p].pc = "inactivo"
          /\ procs' = [procs EXCEPT ![p] =
                          IF r.error # "NINGUNO"
                          THEN Fin(proc, 400, r.error)
                          ELSE [proc EXCEPT !.pc = "crear", !.plan = r.plan]]
          /\ UNCHANGED <<hoy, store, res>>

\* createReserva: prisma.reserva.create de la siguiente entrada del plan
CR_Crear(p) ==
    LET proc == procs[p]
        index == Len(proc.creadas) + 1
        creadas == Append(proc.creadas, nextId)
    IN /\ proc.pc = "crear"
       /\ reservas' = [i \in DOMAIN reservas \cup {nextId} |->
                          IF i \in DOMAIN reservas
                          THEN reservas[i]
                          ELSE NuevaReserva(proc.actor, proc.body, proc.plan, index)]
       /\ nextId' = nextId + 1
       /\ procs' = [procs EXCEPT ![p] =
                       IF index = Len(proc.plan)
                       THEN Fin([proc EXCEPT !.creadas = creadas], 201, "NINGUNO")
                       ELSE [proc EXCEPT !.creadas = creadas]]
       /\ UNCHANGED <<hoy, periodos, historicoPeriodos, historicoReservas, res>>

\* createReserva: el almacen falla en un create y la peticion responde 500
CR_FalloAlCrear(p) ==
    /\ procs[p].pc = "crear"
    /\ procs' = [procs EXCEPT ![p] = Fin(@, 500, "INTERNAL_SERVER_ERROR")]
    /\ UNCHANGED <<hoy, store, res>>

\* updatePeriodo: requireAdmin y findUnique del periodo
UP_LeerPeriodo(p, actor, pid, body) ==
    LET proc == [procs[p] EXCEPT !.op = "updatePeriodo", !.actor = actor,
                                 !.id = pid, !.body = body]
    IN /\ procs[p].pc = "inactivo"
       /\ procs' = [procs EXCEPT ![p] =
                       IF Rol(actor) # ADMIN_PRINCIPAL
                       THEN Fin(proc, 403, "FORBIDDEN")
                       ELSE IF pid \notin DOMAIN periodos
                       THEN Fin(proc, 404, "PERIODO_NOT_FOUND")
                       ELSE IF Presente(body.librasTotales)
                               /\ Valor(body.librasTotales) < periodos[pid].librasTotales
                       THEN [proc EXCEPT !.pc = "leerReservas",
                                         !.leido = periodos[pid].librasTotales]
                       ELSE [proc EXCEPT !.pc = "actualizar",
                                         !.leido = periodos[pid].librasTotales]]
       /\ UNCHANGED <<hoy, store, res>>

\* updatePeriodo: findMany de las reservas no canceladas y guarda de reduccion
UP_LeerReservas(p) ==
    LET proc == procs[p]
        periodoLeido == [periodos[proc.id] EXCEPT !.librasTotales = proc.leido]
    IN /\ proc.pc = "leerReservas"
       /\ procs' = [procs EXCEPT ![p] =
                       IF ReduccionRechazada(periodoLeido,
                                             LibrasReservadas(reservas, proc.id), proc.body)
                       THEN Fin(proc, 400, "REDUCCION")
                       ELSE [proc EXCEPT !.pc = "actualizar"]]
       /\ UNCHANGED <<hoy, store, res>>

\* updatePeriodo: prisma.periodoLibras.update
UP_Actualizar(p) ==
    LET proc == procs[p]
    IN /\ proc.pc = "actualizar" /\ proc.op = "updatePeriodo"
       /\ periodos' = [periodos EXCEPT ![proc.id] = PeriodoConCambios(@, proc.body)]
       /\ procs' = [procs EXCEPT ![p] = Fin(proc, 200, "NINGUNO")]
       /\ UNCHANGED <<hoy, reservas, nextId, historicoPeriodos, historicoReservas, res>>

\* updateReserva: findUnique de la reserva y permisos
UR_Leer(p, actor, rid, body) ==
    LET proc == [procs[p] EXCEPT !.op = "updateReserva", !.actor = actor,
                                 !.id = rid, !.body = body]
    IN /\ procs[p].pc = "inactivo"
       /\ procs' = [procs EXCEPT ![p] =
                       IF rid \notin DOMAIN reservas
                       THEN Fin(proc, 404, "RESERVA_NOT_FOUND")
                       ELSE IF NoEsPropia(actor, reservas[rid])
                       THEN Fin(proc, 403, "NO_PUEDE_EDITAR_RESERVA")
                       ELSE IF Presente(body.libras)
                       THEN [proc EXCEPT !.pc = "calcular", !.leido = reservas[rid].periodoId]
                       ELSE [proc EXCEPT !.pc = "actualizar",
                                         !.leido = reservas[rid].periodoId]]
       /\ UNCHANGED <<hoy, store, res>>

\* updateReserva: calcularLibrasDisponibles y validacion de las libras
UR_Calcular(p) ==
    LET proc == procs[p]
    IN /\ proc.pc = "calcular"
       /\ procs' = [procs EXCEPT ![p] =
                       IF parseDecimal(Valor(proc.body.libras)) >
                            calcularLibrasDisponibles(periodos, reservas, proc.leido, proc.id)
                       THEN Fin(proc, 400, "SIN_CAPACIDAD")
                       ELSE [proc EXCEPT !.pc = "actualizar"]]
       /\ UNCHANGED <<hoy, store, res>>

\* updateReserva: prisma.reserva.update; falla si la fila ya no existe
UR_Actualizar(p) ==
    LET proc == procs[p]
    IN /\ proc.pc = "actualizar" /\ proc.op = "updateReserva"
       /\ IF proc.id \in DOMAIN reservas
          THEN /\ reservas' = [reservas EXCEPT ![proc.id] = ConCambios(@, proc.body)]
               /\ procs' = [procs EXCEPT ![p] = Fin(proc, 200, "NINGUNO")]
          ELSE /\ UNCHANGED reservas
               /\ procs' = [procs EXCEPT ![p] = Fin(proc, 500, "INTERNAL_SERVER_ERROR")]
       /\ UNCHANGED <<hoy, periodos, nextId, historicoPeriodos, historicoReservas, res>>

\* peticiones de cambio de status que los procesos envian: <<actor, status>>
UpdateStatusConcRequests == {<<1, CONFIRMADA>>, <<1, CANCELADA>>, <<2, ENVIADA>>}

\* updateReservaStatus: findUnique de la reserva y canChangeReservaStatus
URS_Leer(p, actor, rid, status) ==
    LET proc == [procs[p] EXCEPT !.op = "updateReservaStatus", !.actor = actor,
                                 !.id = rid, !.body = status]
    IN /\ procs[p].pc = "inactivo"
       /\ procs' = [procs EXCEPT ![p] =
                       IF rid \notin DOMAIN reservas
                       THEN Fin(proc, 404, "RESERVA_NOT_FOUND")
                       ELSE LET canChange == canChangeReservaStatus(
                                                Rol(actor), reservas[rid].status, status)
                            IN IF ~canChange.allowed
                               THEN Fin(proc, 400, canChange.reason)
                               ELSE [proc EXCEPT !.pc = "actualizar",
                                                 !.leido = reservas[rid].status]]
       /\ UNCHANGED <<hoy, store, res>>

\* updateReservaStatus: prisma.reserva.update; falla si la fila ya no existe
URS_Actualizar(p) ==
    LET proc == procs[p]
    IN /\ proc.pc = "actualizar" /\ proc.op = "updateReservaStatus"
       /\ IF proc.id \in DOMAIN reservas
          THEN /\ reservas' = [reservas EXCEPT ![proc.id] = ConStatus(@, proc.body, hoy)]
               /\ procs' = [procs EXCEPT ![p] = Fin(proc, 200, "NINGUNO")]
          ELSE /\ UNCHANGED reservas
               /\ procs' = [procs EXCEPT ![p] = Fin(proc, 500, "INTERNAL_SERVER_ERROR")]
       /\ UNCHANGED <<hoy, periodos, nextId, historicoPeriodos, historicoReservas, res>>

\* closePeriodo: requireAdmin y findUnique del periodo con sus reservas
CP_Leer(p, actor, pid) ==
    LET proc == [procs[p] EXCEPT !.op = "closePeriodo", !.actor = actor, !.id = pid]
    IN /\ procs[p].pc = "inactivo"
       /\ procs' = [procs EXCEPT ![p] =
                       IF Rol(actor) # ADMIN_PRINCIPAL
                       THEN Fin(proc, 403, "FORBIDDEN")
                       ELSE IF pid \notin DOMAIN periodos
                       THEN Fin(proc, 404, "PERIODO_NOT_FOUND")
                       ELSE [proc EXCEPT
                               !.pc = "historico",
                               !.leido = [reservas |-> [i \in ReservasDePeriodo(reservas, pid)
                                                          |-> reservas[i]],
                                          periodo |-> periodos[pid]]]]
       /\ UNCHANGED <<hoy, store, res>>

\* closePeriodo: prisma.historicoPeriodo.create con las estadisticas de lo leido
CP_CrearHistorico(p) ==
    LET proc == procs[p]
    IN /\ proc.pc = "historico"
       /\ historicoPeriodos' =
            Append(historicoPeriodos,
                   HistoricoDe(proc.leido.periodo, proc.leido.reservas,
                               DOMAIN proc.leido.reservas))
       /\ procs' = [procs EXCEPT ![p].pc =
                       IF DOMAIN proc.leido.reservas = {} THEN "eliminar" ELSE "archivar"]
       /\ UNCHANGED <<hoy, periodos, reservas, nextId, historicoReservas, res>>

\* closePeriodo: uno de los prisma.historicoReserva.create del Promise.all
CP_ArchivarReserva(p) ==
    LET proc == procs[p]
        hechas == {proc.creadas[k] : k \in DOMAIN proc.creadas}
    IN /\ proc.pc = "archivar"
       /\ \E i \in DOMAIN proc.leido.reservas \ hechas :
             /\ historicoReservas' =
                  historicoReservas (+)
                     SetToBag({HistoricoReservaDe(proc.leido.periodo,
                                                  proc.leido.reservas[i], i)})
             /\ procs' = [procs EXCEPT
                             ![p].creadas = Append(@, i),
                             ![p].pc = IF hechas \cup {i} = DOMAIN proc.leido.reservas
                                       THEN "eliminar" ELSE "archivar"]
       /\ UNCHANGED <<hoy, periodos, reservas, nextId, historicoPeriodos, res>>

\* closePeriodo: prisma.reserva.deleteMany({ where: { periodoId } })
CP_Eliminar(p) ==
    /\ procs[p].pc = "eliminar"
    /\ reservas' = SinReservasDePeriodo(reservas, procs[p].id)
    /\ procs' = [procs EXCEPT ![p].pc = "desactivar"]
    /\ UNCHANGED <<hoy, periodos, nextId, historicoPeriodos, historicoReservas, res>>

\* closePeriodo: prisma.periodoLibras.update({ isActive: false })
CP_Desactivar(p) ==
    /\ procs[p].pc = "desactivar"
    /\ periodos' = [periodos EXCEPT ![procs[p].id].isActive = FALSE]
    /\ procs' = [procs EXCEPT ![p] = Fin(@, 200, "NINGUNO")]
    /\ UNCHANGED <<hoy, reservas, nextId, historicoPeriodos, historicoReservas, res>>

\* closePeriodo: el almacen falla en una llamada posterior a
\* historicoPeriodo.create y la peticion responde 500
CP_Fallo(p) ==
    /\ procs[p].pc \in {"archivar", "eliminar", "desactivar"}
    /\ procs' = [procs EXCEPT ![p] = Fin(@, 500, "INTERNAL_SERVER_ERROR")]
    /\ UNCHANGED <<hoy, store, res>>

NextConc ==
    \/ \E p \in Procs, req \in CreateReservaConcRequests :
          CR_Leer(p, req.actor, BodyDe(req))
    \/ \E p \in Procs : CR_Crear(p)
    \/ \E p \in Procs : CR_FalloAlCrear(p)
    \/ \E p \in Procs, pid \in PeriodoIds, body \in UpdatePeriodoConcBodies :
          UP_LeerPeriodo(p, 1, pid, body)
    \/ \E p \in Procs : UP_LeerReservas(p)
    \/ \E p \in Procs : UP_Actualizar(p)
    \/ \E p \in Procs, body \in UpdateReservaConcBodies : UR_Leer(p, 2, 1, body)
    \/ \E p \in Procs : UR_Calcular(p)
    \/ \E p \in Procs : UR_Actualizar(p)
    \/ \E p \in Procs, req \in UpdateStatusConcRequests : URS_Leer(p, req[1], 1, req[2])
    \/ \E p \in Procs : URS_Actualizar(p)
    \/ \E p \in Procs, pid \in PeriodoIds : CP_Leer(p, 1, pid)
    \/ \E p \in Procs : CP_CrearHistorico(p)
    \/ \E p \in Procs : CP_ArchivarReserva(p)
    \/ \E p \in Procs : CP_Eliminar(p)
    \/ \E p \in Procs : CP_Desactivar(p)
    \/ \E p \in Procs : CP_Fallo(p)

SpecConc == InitConc /\ [][NextConc]_vars

----------------------------------------------------------------------------
(* Especificacion de edicion: consultas, ediciones, cancelaciones y bajas    *)
(* sobre dos reservas de un mismo periodo.                                   *)

ObsEditar ==
    {"updateReserva", "updateReservaStatus", "deleteReserva", "getReservaById",
     "calcularLibrasDisponibles"}

\* dos periodos de 1 lb; en el primero, una reserva de 0.50 lb del usuario 3 y
\* otra de 0.50 lb del usuario 2, como quedan tras createPeriodo,
\* createReserva y updateReserva
InitEditar ==
    /\ hoy = 1
    /\ periodos = <<[librasTotales |-> 1, isActive |-> TRUE, fechaEnvio |-> 1],
                    [librasTotales |-> 1, isActive |-> TRUE, fechaEnvio |-> 2]>>
    /\ reservas = <<NuevaReserva(3, [observaciones |-> <<"nota">>, estado |-> "TX"],
                                 <<[libras |-> 50, periodoId |-> 1, fecha |-> 1]>>, 1),
                    NuevaReserva(2, [observaciones |-> << >>, estado |-> "FL"],
                                 <<[libras |-> 50, periodoId |-> 1, fecha |-> 1]>>, 1)>>
    /\ nextId = 3
    /\ historicoPeriodos = << >>
    /\ historicoReservas = EmptyBag
    /\ res = NoObservada
    /\ procs = << >>

NextEditar ==
    \/ \E actor \in Actores, rid \in ReservaIds, body \in UpdateReservaBodies :
          UpdateReserva(ObsEditar, actor, rid, body)
    \/ \E actor \in Actores, rid \in ReservaIds, status \in {CONFIRMADA, CANCELADA} :
          UpdateReservaStatus(ObsEditar, actor, rid, status)
    \/ \E actor \in Actores, rid \in ReservaIds : DeleteReserva(ObsEditar, actor, rid)
    \/ \E actor \in Actores, rid \in ReservaIds : GetReservaById(ObsEditar, actor, rid)
    \/ \E pid \in PeriodoIds, excludeReservaId \in {0} \cup ReservaIds :
          CalcularLibrasDisponibles(ObsEditar, pid, excludeReservaId)

SpecEditar == InitEditar /\ [][NextEditar]_vars

----------------------------------------------------------------------------
(* Especificacion del ciclo de vida de una reserva: cambios de status y      *)
(* ediciones sobre una reserva ya creada, mientras pasan los dias.           *)

ObsStatus == {"updateReserva", "updateReservaStatus"}

\* un periodo de 1 lb con una reserva PENDIENTE de 0.50 lb del usuario 2, como
\* quedan tras createPeriodo y createReserva
InitStatus ==
    /\ hoy = 1
    /\ periodos = <<[librasTotales |-> 1, isActive |-> TRUE, fechaEnvio |-> 2]>>
    /\ reservas = <<NuevaReserva(2, [observaciones |-> << >>, estado |-> "FL"],
                                 <<[libras |-> 50, periodoId |-> 1, fecha |-> 2]>>, 1)>>
    /\ nextId = 2
    /\ historicoPeriodos = << >>
    /\ historicoReservas = EmptyBag
    /\ res = NoObservada
    /\ procs = << >>

UpdateReservaStatusBodies ==
    [libras : {<<1000>>}, status : {<< >>}, observaciones : {<< >>}, estado : {<< >>}]
      \cup [libras : {<< >>}, status : {<< >>}, observaciones : {<<"nota">>},
            estado : {<< >>}]
      \cup [libras : {<< >>}, status : {<<s>> : s \in STATUS_RESERVA}, observaciones : {<< >>},
            estado : {<< >>}]

\* getTodayDateString: pasa un dia del calendario
Tick ==
    /\ hoy < MaxDia
    /\ hoy' = hoy + 1
    /\ res' = NoObservada
    /\ UNCHANGED <<store, procs>>

NextStatus ==
    \/ Tick
    \/ \E actor \in Actores, rid \in ReservaIds, body \in UpdateReservaStatusBodies :
          UpdateReserva(ObsStatus, actor, rid, body)
    \/ \E actor \in Actores, rid \in ReservaIds, status \in STATUS_RESERVA :
          UpdateReservaStatus(ObsStatus, actor, rid, status)

SpecStatus == InitStatus /\ [][NextStatus]_vars

----------------------------------------------------------------------------
(* Propiedades *)

RECURSIVE SumaSeq(_, _)
SumaSeq(f, k) == IF k = 0 THEN 0 ELSE f[k] + SumaSeq(f, k - 1)

\* libras pedidas por la peticion createReserva que res describe
Pedidas(r) == parseDecimal(r.body.libras)

\* filas que el paso agrega a la tabla reservas
Nuevas == DOMAIN reservas' \ DOMAIN reservas

\* libras que el paso coloca en el periodo pid
Colocadas(pid) == SumaLibras(reservas', {i \in Nuevas : reservas'[i].periodoId = pid})

\* capacidad que un candidato ofrece antes del paso: lo disponible, o nada si
\* queda por debajo de la granularidad minima
Ofrecidas(pid) ==
    IF Disponibles(periodos, reservas, pid) >= MinChunk
    THEN Disponibles(periodos, reservas, pid)
    ELSE 0

PasoCrear == res'.op = "createReserva"

PasoCrearBien == res'.op = "createReserva" /\ res'.http = 201

\* C1: en todo estado alcanzable por peticiones atendidas de una en una, la
\* suma de libras de las reservas no canceladas de cada periodo no supera
\* sus librasTotales.
C1_CapacidadNoExcedida ==
    \A pid \in DOMAIN periodos :
        LibrasReservadas(reservas, pid) <= periodos[pid].librasTotales * Centesimas

\* C5: un createReserva cuyas libras no caben enteras en los periodos
\* candidatos falla y no crea ninguna fila: reservas y periodos quedan igual.
C5_SinAsignacionParcial ==
    [][(PasoCrear /\ Pedidas(res') >
            SumaSeq([k \in DOMAIN res'.candidatos |-> Ofrecidas(res'.candidatos[k])],
                    Len(res'.candidatos)))
         => (res'.http = 400 /\ res'.creadas = << >> /\ UNCHANGED store)]_vars

\* un createReserva fallo por capacidad aunque parte de las libras cabia
C5_Testigo ==
    /\ res.op = "createReserva"
    /\ res.error = "SIN_CAPACIDAD"
    /\ Len(res.candidatos) = 2
    /\ res.maximo > 0

\* C7: un createReserva exitoso por W libras crea una o mas filas cuyas libras
\* suman W, cada una de al menos 0.01, a lo sumo una por periodo, todas del
\* usuario que pide, en PENDIENTE y con el mismo estado (destino).
C7_FilasCreadas ==
    [][PasoCrearBien =>
        /\ Nuevas # {}
        /\ Nuevas = {res'.creadas[k] : k \in DOMAIN res'.creadas}
        /\ DOMAIN reservas \subseteq DOMAIN reservas'
        /\ SumaLibras(reservas', Nuevas) = Pedidas(res')
        /\ \A i \in Nuevas :
              /\ reservas'[i].libras >= MinChunk
              /\ reservas'[i].userId = res'.actor
              /\ reservas'[i].status = PENDIENTE
              /\ reservas'[i].estado = res'.body.estado
        /\ \A i, j \in Nuevas :
              i # j => reservas'[i].periodoId # reservas'[j].periodoId]_vars

\* una peticion quedo repartida en dos filas
C7_Testigo ==
    /\ res.op = "createReserva"
    /\ res.http = 201
    /\ Len(res.creadas) = 2
    /\ \A k \in DOMAIN res.creadas : res.creadas[k] \in DOMAIN reservas

\* C8: el plan recorre los candidatos por fechaEnvio ascendente y da a cada
\* uno min(lo que falta, lo disponible), saltando los que ofrecen menos de
\* 0.01; un periodo solo recibe libras si todos los candidatos anteriores
\* quedan sin disponibilidad.  Con P1 (30 disponibles) antes de P2 (50) y una
\* peticion de 60 lb el resultado es 30 en P1 y 30 en P2.
C8_Ejemplo ==
    LET ps == <<[librasTotales |-> 30, isActive |-> TRUE, fechaEnvio |-> 1],
                [librasTotales |-> 50, isActive |-> TRUE, fechaEnvio |-> 2]>>
        r == PlanDeReservas(ps, << >>, <<1, 2>>, 60 * Centesimas, 1)
    IN /\ Ordenados(ps, PeriodosActivos(ps, 1)) = {<<1, 2>>}
       /\ r.librasRestantes = 0
       /\ Len(r.plan) = 2
       /\ r.plan[1].periodoId = 1 /\ r.plan[1].libras = 30 * Centesimas
       /\ r.plan[2].periodoId = 2 /\ r.plan[2].libras = 30 * Centesimas

C8_PlanVoraz ==
    [][PasoCrear =>
        LET c == res'.candidatos
            faltan(k) == Pedidas(res')
                           - SumaSeq([j \in DOMAIN c |-> Colocadas(c[j])], k - 1)
        IN /\ C8_Ejemplo
           /\ \A i, j \in DOMAIN c :
                 i < j => periodos[c[i]].fechaEnvio <= periodos[c[j]].fechaEnvio
           /\ \A i \in Nuevas : \E k \in DOMAIN c : reservas'[i].periodoId = c[k]
           /\ res'.http = 201 =>
                \A k \in DOMAIN c :
                    /\ Colocadas(c[k]) = Min(faltan(k), Ofrecidas(c[k]))
                    /\ Colocadas(c[k]) > 0 =>
                         \A j \in 1..(k - 1) :
                             Disponibles(periodos', reservas', c[j]) < MinChunk]_vars

\* con dos candidatos, el primero no ofrecia nada y todo quedo en el segundo
C8_Testigo ==
    /\ res.op = "createReserva"
    /\ res.http = 201
    /\ Len(res.candidatos) = 2
    /\ Len(res.creadas) = 1
    /\ res.creadas[1] \in DOMAIN reservas
    /\ reservas[res.creadas[1]].periodoId = res.candidatos[2]

\* C9: sin periodoId, createReserva solo coloca libras en periodos activos con
\* fechaEnvio igual o posterior a la fecha pedida; con periodoId solo en ese
\* periodo, y solo si existe y esta activo (si no, rechaza); sin candidatos
\* falla con el error de periodos activos y no crea filas.
C9_PeriodosCandidatos ==
    [][PasoCrear =>
        LET b == res'.body
            pid == Valor(b.periodoId)
            elegibles == {p \in DOMAIN periodos :
                              periodos[p].isActive /\ periodos[p].fechaEnvio >= b.fecha}
        IN IF Presente(b.periodoId)
           THEN /\ \A i \in Nuevas : reservas'[i].periodoId = pid
                /\ res'.http = 201 => (pid \in DOMAIN periodos /\ periodos[pid].isActive)
                /\ (pid \notin DOMAIN periodos \/ ~periodos[pid].isActive)
                      => (res'.http = 400 /\ UNCHANGED store)
           ELSE /\ \A i \in Nuevas : reservas'[i].periodoId \in elegibles
                /\ elegibles = {}
                      => (res'.error = "SIN_PERIODOS" /\ UNCHANGED store)]_vars

\* una peticion sin periodoId se coloco mientras otro periodo con libras
\* disponibles quedaba fuera por inactivo o por fecha
C9_Testigo ==
    /\ res.op = "createReserva"
    /\ res.http = 201
    /\ ~Presente(res.body.periodoId)
    /\ \E p \in DOMAIN periodos :
          /\ ~periodos[p].isActive \/ periodos[p].fechaEnvio < res.body.fecha
          /\ Disponibles(periodos, reservas, p) > 0

\* C10: createReserva por W libras falla con el error de capacidad si y solo
\* si W supera la suma de lo disponible en los periodos candidatos; el error
\* informa como maximo esa suma y como faltante W menos esa suma.
C10_ErrorDeCapacidad ==
    [][(PasoCrear /\ Len(res'.candidatos) > 0) =>
        LET c == res'.candidatos
            suma == SumaSeq([k \in DOMAIN c |-> Disponibles(periodos, reservas, c[k])],
                            Len(c))
        IN /\ (res'.error = "SIN_CAPACIDAD") <=> (Pedidas(res') > suma)
           /\ res'.error = "SIN_CAPACIDAD" =>
                 /\ res'.maximo = suma
                 /\ res'.faltan = Pedidas(res') - suma
                 /\ res'.maximo + res'.faltan = Pedidas(res')]_vars


----------------------------------------------------------------------------
(* Propiedades de la especificacion concurrente *)

Terminadas == \A p \in Procs : procs[p].pc = "fin"

Iniciadas == {p \in Procs : procs[p].pc # "inactivo"}

CapacidadRespetada ==
    \A pid \in DOMAIN periodos :
       LibrasReservadas(reservas, pid) <= periodos[pid].librasTotales * Centesimas

\* libras (centesimas) pedidas por las peticiones createReserva de los procesos
RECURSIVE PedidasPor(_)
PedidasPor(P) ==
    IF P = {} THEN 0
    ELSE LET p == CHOOSE q \in P : TRUE
         IN parseDecimal(procs[p].body.libras) + PedidasPor(P \ {p})

\* C2: cuando dos createReserva concurrentes sobre el mismo periodo han
\* terminado, las libras no canceladas de cada periodo no superan sus
\* librasTotales (la lectura de capacidad y las inserciones son atomicas).
C2_CreacionAtomica ==
    (Terminadas /\ \A p \in Procs : procs[p].op = "createReserva")
       => CapacidadRespetada

\* C3: si un updatePeriodo que baja librasTotales corre a la vez que un
\* createReserva o un updateReserva que sube el peso, al terminar ambos
\* librasTotales sigue siendo >= la suma de libras no canceladas del periodo.
C3_ReduccionSegura ==
    (/\ Terminadas
     /\ \E p \in Procs :
           /\ procs[p].op = "updatePeriodo"
           /\ procs[p].http = 200
           /\ Valor(procs[p].body.librasTotales) < procs[p].leido
     /\ \E p \in Procs : procs[p].op \in {"createReserva", "updateReserva"})
       => CapacidadRespetada

\* C4: para cualquier conjunto de createReserva (en cualquier orden o a la
\* vez) contra un unico periodo de capacidad fija, la capacidad nunca se
\* supera y, al terminar todas, el total no cancelado del periodo es
\* min(suma de lo pedido, librasTotales).
C4_TotalAsignado ==
    (\A p \in Iniciadas :
        /\ procs[p].op = "createReserva"
        /\ procs[p].body.periodoId = <<1>>
        /\ procs[p].http # 500)
       => /\ LibrasReservadas(reservas, 1) <= periodos[1].librasTotales * Centesimas
          /\ (Terminadas =>
                LibrasReservadas(reservas, 1) =
                   Min(PedidasPor(Procs), periodos[1].librasTotales * Centesimas))

\* C6: si el almacen falla a mitad de un createReserva, no queda ninguna
\* fila de esa peticion.
C6_FalloSinFilas ==
    \A p \in Procs :
       (procs[p].op = "createReserva" /\ procs[p].pc = "fin" /\ procs[p].http = 500)
          => \A k \in DOMAIN procs[p].creadas : procs[p].creadas[k] \notin DOMAIN reservas

----------------------------------------------------------------------------
(* Fechas del plan *)

\* C11: el primer tramo creado conserva la fecha pedida si esa fecha coincide
\* con la del primer periodo candidato; los demas tramos, y el primero cuando
\* no coincide, llevan el fechaEnvio del periodo en que quedan.
C11_FechaPrimerCandidato ==
    [][PasoCrearBien =>
        \A k \in DOMAIN res'.creadas :
            LET r == reservas'[res'.creadas[k]]
                primero == res'.candidatos[1]
            IN r.fecha = IF k = 1 /\ res'.body.fecha = periodos[primero].fechaEnvio
                         THEN res'.body.fecha
                         ELSE periodos[r.periodoId].fechaEnvio]_vars

\* C11 (reformulada): el primer tramo conserva la fecha pedida si coincide con
\* el fechaEnvio del periodo en que queda ese tramo; en otro caso cada tramo
\* lleva el fechaEnvio de su periodo.
C11_FechaDeCadaTramo ==
    [][PasoCrearBien =>
        \A k \in DOMAIN res'.creadas :
            LET r == reservas'[res'.creadas[k]]
            IN r.fecha = IF k = 1 /\ res'.body.fecha = periodos[r.periodoId].fechaEnvio
                         THEN res'.body.fecha
                         ELSE periodos[r.periodoId].fechaEnvio]_vars

\* la fecha pedida es la del primer candidato, que no ofrecia nada, y el
\* primer tramo quedo en un periodo posterior con otra fecha
C11_Testigo ==
    /\ res.op = "createReserva"
    /\ res.http = 201
    /\ Len(res.candidatos) = 2
    /\ res.creadas # << >>
    /\ res.creadas[1] \in DOMAIN reservas
    /\ res.body.fecha = periodos[res.candidatos[1]].fechaEnvio
    /\ reservas[res.creadas[1]].periodoId = res.candidatos[2]
    /\ reservas[res.creadas[1]].fecha # res.body.fecha

----------------------------------------------------------------------------
(* Propiedades del ciclo de vida *)

Terminal(status) == status \in {ENTREGADA, CANCELADA}

\* la lista de adyacencia del ciclo de vida
Adyacentes ==
    {<<PENDIENTE, CONFIRMADA>>, <<PENDIENTE, CANCELADA>>,
     <<CONFIRMADA, ENVIADA>>, <<CONFIRMADA, CANCELADA>>,
     <<ENVIADA, ENTREGADA>>, <<ENVIADA, CANCELADA>>}

CambioPermitido(role, current, requested) ==
    /\ ~Terminal(current)
    /\ requested # current
    /\ \/ role = ADMIN_PRINCIPAL /\ <<current, requested>> \in Adyacentes
       \/ role = USUARIO /\ current = CONFIRMADA /\ requested = ENVIADA

MotivosDeRechazo(current, requested) ==
    IF Terminal(current) THEN {"ESTADO_FINAL"}
    ELSE IF requested = current THEN {"MISMO_ESTADO"}
    ELSE {"TRANSICION_INVALIDA", "SOLO_CONFIRMADA_A_ENVIADA"}

PasoStatus == res'.op = "updateReservaStatus" /\ res'.id \in DOMAIN reservas

\* C12: para cada rol y cada par (actual, pedido) de los cinco status,
\* canChangeReservaStatus permite el cambio exactamente cuando el actual no es
\* ENTREGADA/CANCELADA, el pedido difiere del actual y o bien el rol es
\* ADMIN_PRINCIPAL y el par esta en la lista de adyacencia, o bien el rol es
\* USUARIO y el par es CONFIRMADA->ENVIADA; un rechazo da el motivo de estado
\* final si el actual es final, si no el de mismo estado si coinciden, y si no
\* el de rol/adyacencia.  updateReservaStatus responde segun esa decision.
C12_TablaDeTransiciones ==
    [][/\ \A role \in {ADMIN_PRINCIPAL, USUARIO}, current, requested \in STATUS_RESERVA :
            LET c == canChangeReservaStatus(role, current, requested)
            IN /\ c.allowed <=> CambioPermitido(role, current, requested)
               /\ ~c.allowed => c.reason \in MotivosDeRechazo(current, requested)
       /\ PasoStatus =>
            LET current == reservas[res'.id].status
            IN /\ res'.http = 200
                    <=> CambioPermitido(Rol(res'.actor), current, res'.body)
               /\ res'.http # 200
                    => (res'.http = 400
                        /\ res'.error \in MotivosDeRechazo(current, res'.body))]_vars

\* el administrador pidio pasar una reserva PENDIENTE a ENVIADA y fue rechazado
\* por no ser adyacente
C12_Testigo ==
    /\ res.op = "updateReservaStatus"
    /\ Rol(res.actor) = ADMIN_PRINCIPAL
    /\ res.id \in DOMAIN reservas
    /\ reservas[res.id].status = PENDIENTE
    /\ res.body = ENVIADA
    /\ res.http = 400
    /\ res.error = "TRANSICION_INVALIDA"

\* C13: una reserva en ENTREGADA o CANCELADA ya no cambia de status, libras ni
\* observaciones por ninguna peticion posterior de updateReservaStatus o
\* updateReserva, sea quien sea el actor, y esas peticiones son rechazadas.
C13_TerminalInmutable ==
    [][\A rid \in DOMAIN reservas :
          Terminal(reservas[rid].status) =>
             /\ rid \in DOMAIN reservas' =>
                   /\ reservas'[rid].status = reservas[rid].status
                   /\ reservas'[rid].libras = reservas[rid].libras
                   /\ reservas'[rid].observaciones = reservas[rid].observaciones
             /\ (res'.op \in ObsStatus /\ res'.id = rid) => res'.http # 200]_vars

CambiosDeStatus ==
    {rid \in DOMAIN reservas \cap DOMAIN reservas' :
        reservas'[rid].status # reservas[rid].status}

\* C14: en cualquier secuencia de peticiones, todo cambio de status de una
\* reserva viva, lo haga la operacion que lo haga, es un paso de la lista de
\* adyacencia (nunca hacia atras), y todo cambio causado por la peticion de
\* un actor USUARIO es CONFIRMADA->ENVIADA.
C14_CambiosAdyacentes ==
    [][\A rid \in CambiosDeStatus :
          /\ <<reservas[rid].status, reservas'[rid].status>> \in Adyacentes
          /\ Rol(res'.actor) = USUARIO =>
                (reservas[rid].status = CONFIRMADA /\ reservas'[rid].status = ENVIADA)]_vars

\* C15: un updateReservaStatus aceptado pone el status pedido y sella con la
\* fecha de hoy solo el campo de fecha del destino (CONFIRMADA ->
\* fechaConfirmacion, ENVIADA -> fechaEnvio, ENTREGADA -> fechaEntrega);
\* CANCELADA no sella nada; libras, periodo, usuario, observaciones y las
\* demas fechas no cambian; una peticion rechazada no cambia nada.
C15_SelloDeFecha ==
    [][res'.op = "updateReservaStatus" =>
         IF res'.http = 200
         THEN LET rid == res'.id
                  antes == reservas[rid]
                  despues == reservas'[rid]
                  sello(status, campo) == IF res'.body = status THEN {hoy} ELSE campo
              IN /\ rid \in DOMAIN reservas
                 /\ DOMAIN reservas' = DOMAIN reservas
                 /\ \A i \in DOMAIN reservas \ {rid} : reservas'[i] = reservas[i]
                 /\ despues.status = res'.body
                 /\ despues.fechaConfirmacion = sello(CONFIRMADA, antes.fechaConfirmacion)
                 /\ despues.fechaEnvio = sello(ENVIADA, antes.fechaEnvio)
                 /\ despues.fechaEntrega = sello(ENTREGADA, antes.fechaEntrega)
                 /\ despues.libras = antes.libras
                 /\ despues.periodoId = antes.periodoId
                 /\ despues.userId = antes.userId
                 /\ despues.observaciones = antes.observaciones
                 /\ despues.fecha = antes.fecha
                 /\ despues.estado = antes.estado
                 /\ UNCHANGED <<periodos, nextId, historicoPeriodos, historicoReservas>>
         ELSE UNCHANGED store]_vars

\* una reserva confirmada el dia 1 paso a ENVIADA el dia 2: fechaEnvio es hoy
\* y fechaConfirmacion sigue siendo la del dia 1
C15_Testigo ==
    /\ res.op = "updateReservaStatus"
    /\ res.http = 200
    /\ res.body = ENVIADA
    /\ res.id \in DOMAIN reservas
    /\ hoy = 2
    /\ reservas[res.id].status = ENVIADA
    /\ reservas[res.id].fechaEnvio = {2}
    /\ reservas[res.id].fechaConfirmacion = {1}
    /\ reservas[res.id].fechaEntrega = {}

CamposDeFecha == {"fechaConfirmacion", "fechaEnvio", "fechaEntrega"}

\* C16: una vez que fechaConfirmacion, fechaEnvio o fechaEntrega de una
\* reserva tiene valor, ninguna operacion posterior sobre esa reserva lo
\* cambia; en particular PENDIENTE->CONFIRMADA->ENVIADA deja fechaConfirmacion
\* como la puso la primera transicion.
C16_FechasDeUnaSolaEscritura ==
    [][\A rid \in DOMAIN reservas \cap DOMAIN reservas' :
          \A campo \in CamposDeFecha :
             reservas[rid][campo] # {} => reservas'[rid][campo] = reservas[rid][campo]]_vars

----------------------------------------------------------------------------
(* Propiedades concurrentes del ciclo de vida y del cierre *)

\* el paso en que el proceso p escribe el status de un updateReservaStatus
EscribeStatus(p) ==
    /\ procs[p].op = "updateReservaStatus"
    /\ procs[p].pc = "actualizar"
    /\ procs'[p].pc = "fin"
    /\ procs'[p].http = 200

\* C17: cuando dos updateReservaStatus sobre la misma reserva corren a la vez,
\* cada transicion aceptada es valida respecto del status que la reserva
\* tiene en el momento de escribir el nuevo: los status escritos siguen la
\* lista de adyacencia y nunca salen de un status final.
C17_TransicionValidaAlEscribir ==
    [][\A p \in Procs :
          EscribeStatus(p) =>
             /\ canChangeReservaStatus(Rol(procs[p].actor), reservas[procs[p].id].status,
                                       procs[p].body).allowed
             /\ <<reservas[procs[p].id].status, reservas'[procs[p].id].status>>
                   \in Adyacentes]_vars

\* C19: si closePeriodo falla despues de escribir la fila de HistoricoPeriodo
\* (al archivar reservas, al eliminarlas o al desactivar el periodo), el
\* almacen queda como antes del intento: sin filas historicas nuevas, sin
\* reservas eliminadas y con el periodo activo.
C19_CierreTodoONada ==
    \A p \in Procs :
       (/\ procs[p].op = "closePeriodo"
        /\ procs[p].pc = "fin"
        /\ procs[p].http = 500
        /\ \A q \in Procs \ {p} : procs[q].pc = "inactivo")
          => /\ historicoPeriodos = << >>
             /\ historicoReservas = EmptyBag
             /\ periodos[procs[p].id] = procs[p].leido.periodo
             /\ \A i \in DOMAIN procs[p].leido.reservas :
                   i \in DOMAIN reservas /\ reservas[i] = procs[p].leido.reservas[i]

\* C20: en cualquier intercalado de closePeriodo con createReserva,
\* updateReserva o updateReservaStatus sobre el mismo periodo, toda reserva
\* viva que closePeriodo elimina tiene una fila de HistoricoReserva, escrita
\* antes de eliminarla, con su id y con sus libras y status al eliminarla.
C20_EliminadasArchivadas ==
    [][\A rid \in DOMAIN reservas \ DOMAIN reservas' :
          \E h \in BagToSet(historicoReservas) :
             /\ h.reservaOriginalId = rid
             /\ h.libras = reservas[rid].libras
             /\ h.status = reservas[rid].status]_vars

----------------------------------------------------------------------------
(* Cierre de un periodo sin interferencia *)

\* C18: closePeriodo sobre un periodo de total T cuyas reservas no canceladas
\* suman R, sin interferencia, termina con: un HistoricoPeriodo con
\* librasTotales = T, librasReservadas = R, librasDisponibles = T - R,
\* totalReservas = numero de reservas no canceladas y totalUsuarios = numero de
\* usuarios distintos entre ellas; un HistoricoReserva por cada reserva
\* original, canceladas incluidas, con su id, libras y status; ninguna reserva
\* viva del periodo; e isActive = FALSE.
C18_CierreCompleto ==
    [][(/\ res'.op = "closePeriodo"
        /\ Rol(res'.actor) = ADMIN_PRINCIPAL
        /\ res'.id \in DOMAIN periodos) =>
         LET pid == res'.id
             ids == ReservasDePeriodo(reservas, pid)
             activas == {i \in ids : reservas[i].status # CANCELADA}
             T == periodos[pid].librasTotales
             R == SumaLibras(reservas, activas)
             h == historicoPeriodos'[Len(historicoPeriodos')]
             nuevas == historicoReservas' (-) historicoReservas
         IN /\ res'.http = 200
            /\ Len(historicoPeriodos') = Len(historicoPeriodos) + 1
            /\ SubSeq(historicoPeriodos', 1, Len(historicoPeriodos)) = historicoPeriodos
            /\ h.librasTotales = T
            /\ h.librasReservadas = R
            /\ h.librasDisponibles = T * Centesimas - R
            /\ h.totalReservas = Cardinality(activas)
            /\ h.totalUsuarios = Cardinality({reservas[i].userId : i \in activas})
            /\ historicoReservas \sqsubseteq historicoReservas'
            /\ BagCardinality(nuevas) = Cardinality(ids)
            /\ \A i \in ids :
                  \E x \in BagToSet(nuevas) :
                     /\ x.reservaOriginalId = i
                     /\ x.libras = reservas[i].libras
                     /\ x.status = reservas[i].status
            /\ ReservasDePeriodo(reservas', pid) = {}
            /\ \A i \in DOMAIN reservas \ ids :
                  i \in DOMAIN reservas' /\ reservas'[i] = reservas[i]
            /\ ~periodos'[pid].isActive]_vars

\* se cerro un periodo que tenia una reserva cancelada y otra no: la cancelada
\* esta archivada pero no cuenta en las estadisticas
C18_Testigo ==
    /\ res.op = "closePeriodo"
    /\ res.http = 200
    /\ historicoPeriodos # << >>
    /\ historicoPeriodos[Len(historicoPeriodos)].totalReservas = 1
    /\ historicoPeriodos[Len(historicoPeriodos)].librasReservadas > 0
    /\ BagCardinality(historicoReservas) = 2
    /\ \E x \in BagToSet(historicoReservas) : x.status = CANCELADA
    /\ ReservasDePeriodo(reservas, res.id) = {}
    /\ ~periodos[res.id].isActive

----------------------------------------------------------------------------
(* Filas historicas *)

PeriodosCerrados == {pid \in DOMAIN periodos : ~periodos[pid].isActive}

\* C21: en cualquier secuencia de peticiones, con closePeriodo repetidos o
\* concurrentes sobre el mismo periodo, las filas historicas se escriben una
\* sola vez: a lo sumo un HistoricoPeriodo por periodo cerrado, cada id de
\* reserva original en a lo sumo un HistoricoReserva, y ninguna operacion
\* modifica ni borra una fila historica.
C21_HistoricoUnaVez ==
    /\ []((Terminadas /\ \A p \in Procs : procs[p].http # 500) =>
            /\ Len(historicoPeriodos) <= Cardinality(PeriodosCerrados)
            /\ \A x \in BagToSet(historicoReservas) :
                  /\ CopiesIn(x, historicoReservas) = 1
                  /\ \A y \in BagToSet(historicoReservas) :
                        x.reservaOriginalId = y.reservaOriginalId => x = y)
    /\ [][/\ Len(historicoPeriodos') >= Len(historicoPeriodos)
          /\ SubSeq(historicoPeriodos', 1, Len(historicoPeriodos)) = historicoPeriodos
          /\ historicoReservas \sqsubseteq historicoReservas']_vars

----------------------------------------------------------------------------
(* Periodos: cierre irreversible y cambio de total *)

\* C22: el archivado es irreversible: una vez que closePeriodo deja isActive
\* en FALSE ninguna secuencia de operaciones lo vuelve a activar, y ninguna
\* operacion borra fisicamente un periodo.
C22_CierreIrreversible ==
    [][\A pid \in DOMAIN periodos :
          /\ pid \in DOMAIN periodos'
          /\ ~periodos[pid].isActive => ~periodos'[pid].isActive]_vars

\* un updatePeriodo aceptado sobre un periodo ya cerrado, que sigue cerrado
C22_Testigo ==
    /\ res.op = "updatePeriodo"
    /\ res.http = 200
    /\ res.id \in DOMAIN periodos
    /\ ~periodos[res.id].isActive
    /\ periodos[res.id].librasTotales = Valor(res.body.librasTotales)

\* C23: updatePeriodo con un nuevo total t se rechaza, dejando el periodo
\* igual, si y solo si t es menor que la suma de libras no canceladas del
\* periodo; con t igual o mayor que esa suma tiene exito y deja
\* librasTotales = t.
C23_ReduccionDeTotal ==
    [][(/\ res'.op = "updatePeriodo"
        /\ Rol(res'.actor) = ADMIN_PRINCIPAL
        /\ res'.id \in DOMAIN periodos
        /\ Presente(res'.body.librasTotales)) =>
         LET pid == res'.id
             t == Valor(res'.body.librasTotales)
         IN IF t * Centesimas < LibrasReservadas(reservas, pid)
            THEN res'.http = 400 /\ UNCHANGED store
            ELSE /\ res'.http = 200
                 /\ periodos'[pid].librasTotales = t]_vars

----------------------------------------------------------------------------
(* Edicion de reservas: capacidad, propiedad y consulta de disponibles *)

\* libras de las reservas no canceladas del periodo pid, sin contar la reserva sin
CompromisoSin(pid, sin) ==
    SumaLibras(reservas, {i \in DOMAIN reservas :
                            /\ reservas[i].periodoId = pid
                            /\ reservas[i].status # CANCELADA
                            /\ i # sin})

\* capacidad restante del periodo pid en el almacen rs
Restante(ps, rs, pid) ==
    ps[pid].librasTotales * Centesimas
      - SumaLibras(rs, {i \in DOMAIN rs : rs[i].periodoId = pid /\ rs[i].status # CANCELADA})

\* C24: updateReserva con un peso nuevo w (el peso normalizado a centesimas)
\* sobre la reserva r del periodo P se acepta si y solo si w no supera
\* P.librasTotales menos la suma de las otras reservas no canceladas de P; al
\* aceptarse solo cambia r, que sigue en P, no se crea ninguna fila y no se
\* toca ningun periodo; al rechazarse no cambia nada.
C24_EdicionDePeso ==
    [][(/\ res'.op = "updateReserva"
        /\ res'.id \in DOMAIN reservas
        /\ ~NoEsPropia(res'.actor, reservas[res'.id])
        /\ Presente(res'.body.libras)) =>
         LET rid == res'.id
             P == reservas[rid].periodoId
             w == parseDecimal(Valor(res'.body.libras))
         IN IF w <= periodos[P].librasTotales * Centesimas - CompromisoSin(P, rid)
            THEN /\ res'.http = 200
                 /\ DOMAIN reservas' = DOMAIN reservas
                 /\ reservas'[rid].libras = w
                 /\ reservas'[rid].periodoId = P
                 /\ \A i \in DOMAIN reservas \ {rid} : reservas'[i] = reservas[i]
                 /\ UNCHANGED <<periodos, nextId, historicoPeriodos, historicoReservas>>
            ELSE /\ res'.http = 400
                 /\ UNCHANGED store]_vars

\* un aumento rechazado aunque otro periodo activo tenia sitio de sobra
C24_Testigo ==
    /\ res.op = "updateReserva" /\ res.http = 400 /\ res.error = "SIN_CAPACIDAD"
    /\ res.id \in DOMAIN reservas
    /\ CompromisoSin(reservas[res.id].periodoId, res.id) > 0
    /\ \E pid \in DOMAIN periodos :
          /\ pid # reservas[res.id].periodoId /\ periodos[pid].isActive
          /\ Restante(periodos, reservas, pid) >= parseDecimal(Valor(res.body.libras))

OpsConPropietario == {"updateReserva", "deleteReserva", "getReservaById"}

\* C25: updateReserva, deleteReserva y getReservaById de un USUARIO sobre la
\* reserva de otro usuario se rechazan con error de permisos y dejan la reserva
\* igual y presente; a un ADMIN_PRINCIPAL no se le aplica esa comprobacion.
C25_SoloPropias ==
    [][(res'.op \in OpsConPropietario /\ res'.id \in DOMAIN reservas) =>
         LET r == reservas[res'.id]
         IN /\ (Rol(res'.actor) = USUARIO /\ r.userId # res'.actor) =>
                  /\ res'.http = 403
                  /\ UNCHANGED store
                  /\ res'.id \in DOMAIN reservas' /\ reservas'[res'.id] = r
            /\ Rol(res'.actor) = ADMIN_PRINCIPAL => res'.http # 403]_vars

C25_Testigo ==
    /\ res.op = "deleteReserva" /\ res.http = 403
    /\ Rol(res.actor) = USUARIO
    /\ res.id \in DOMAIN reservas /\ reservas[res.id].userId # res.actor

\* C26: la consulta de libras disponibles no cambia el estado; dos consultas
\* seguidas del mismo periodo sin escritura entre ellas devuelven lo mismo, y
\* el valor es librasTotales menos la suma de las reservas no canceladas.
C26_ConsultaPura ==
    [][(res'.op = "calcularLibrasDisponibles" /\ res'.id \in DOMAIN periodos) =>
         /\ UNCHANGED store
         /\ res'.http = 200
         /\ res'.valor = periodos[res'.id].librasTotales * Centesimas
                            - CompromisoSin(res'.id, Valor(res'.body))
         /\ (res.op = "calcularLibrasDisponibles" /\ res.id = res'.id
               /\ res.body = res'.body) => res'.valor = res.valor]_vars

\* una consulta sin exclusion sobre un periodo con una reserva cancelada
C26_Testigo ==
    /\ res.op = "calcularLibrasDisponibles" /\ res.http = 200 /\ res.body = <<0>>
    /\ \E i \in DOMAIN reservas :
          reservas[i].periodoId = res.id /\ reservas[i].status = CANCELADA
    /\ \E i \in DOMAIN reservas :
          reservas[i].periodoId = res.id /\ reservas[i].status # CANCELADA
    /\ res.valor = Restante(periodos, reservas, res.id)

\* C29: cancelar (transicion aceptada a CANCELADA) o eliminar una reserva no
\* cancelada de peso w sube en w exactamente la capacidad restante de su
\* periodo y no cambia la de ningun otro; eliminar una reserva ya cancelada no
\* cambia ninguna capacidad restante.
C29_LiberaSuPeso ==
    [][(/\ res'.http = 200
        /\ res'.id \in DOMAIN reservas
        /\ \/ res'.op = "deleteReserva"
           \/ res'.op = "updateReservaStatus" /\ res'.body = CANCELADA) =>
         LET r == reservas[res'.id]
             w == IF r.status = CANCELADA THEN 0 ELSE r.libras
         IN /\ DOMAIN periodos' = DOMAIN periodos
            /\ \A pid \in DOMAIN periodos :
                  calcularLibrasDisponibles(periodos', reservas', pid, 0) =
                     calcularLibrasDisponibles(periodos, reservas, pid, 0)
                       + (IF pid = r.periodoId THEN w ELSE 0)]_vars

\* una cancelacion aceptada: la reserva queda cancelada y su periodo libre
C29_Testigo ==
    /\ res.op = "updateReservaStatus" /\ res.http = 200 /\ res.body = CANCELADA
    /\ res.id \in DOMAIN reservas /\ reservas[res.id].status = CANCELADA
    /\ reservas[res.id].libras > 0
    /\ \E pid \in DOMAIN periodos : pid # reservas[res.id].periodoId

----------------------------------------------------------------------------
(* Reservas vivas, fechas de transicion y cambio de status por rol *)

\* C27: en todo estado alcanzable, tambien al intercalar createReserva con
\* closePeriodo sobre el mismo periodo, ninguna reserva viva pertenece a un
\* periodo con isActive falso.
C27_SinReservasEnPeriodoCerrado ==
    \A rid \in DOMAIN reservas :
       /\ reservas[rid].periodoId \in DOMAIN periodos
       /\ periodos[reservas[rid].periodoId].isActive

\* las fechas de transicion que corresponden al status de la reserva r
FechasSegunStatus(r) ==
    CASE r.status = PENDIENTE  -> /\ r.fechaConfirmacion = {} /\ r.fechaEnvio = {}
                                  /\ r.fechaEntrega = {}
      [] r.status = CONFIRMADA -> r.fechaConfirmacion # {}
      [] r.status = ENVIADA    -> r.fechaConfirmacion # {} /\ r.fechaEnvio # {}
      [] r.status = ENTREGADA  -> /\ r.fechaConfirmacion # {} /\ r.fechaEnvio # {}
                                  /\ r.fechaEntrega # {}
      [] OTHER                 -> TRUE

\* C28: en todo estado alcanzable las fechas de transicion concuerdan con el
\* status de cada reserva viva: PENDIENTE sin ninguna, CONFIRMADA con
\* fechaConfirmacion, ENVIADA con fechaConfirmacion y fechaEnvio, ENTREGADA
\* con las tres.
C28_FechasSegunStatus ==
    \A rid \in DOMAIN reservas : FechasSegunStatus(reservas[rid])

\* C30: el resultado de updateReservaStatus depende solo del rol del actor,
\* del status actual y del status pedido: lo pida el propietario u otro
\* USUARIO, se acepta o se rechaza igual y la reserva resultante es la misma.
C30_SoloRolYStatus ==
    [][PasoStatus =>
         LET rid == res'.id
             r == reservas[rid]
             pedido == res'.body
         IN IF CambioPermitido(Rol(res'.actor), r.status, pedido)
            THEN /\ res'.http = 200
                 /\ reservas' = [reservas EXCEPT ![rid] =
                       [r EXCEPT !.status = pedido,
                                 !.fechaConfirmacion =
                                     IF pedido = CONFIRMADA THEN {hoy} ELSE @,
                                 !.fechaEnvio = IF pedido = ENVIADA THEN {hoy} ELSE @,
                                 !.fechaEntrega = IF pedido = ENTREGADA THEN {hoy} ELSE @]]
            ELSE /\ res'.http = 400
                 /\ UNCHANGED store]_vars

\* un USUARIO que no es el propietario paso la reserva a ENVIADA
C30_Testigo ==
    /\ res.op = "updateReservaStatus" /\ res.http = 200
    /\ Rol(res.actor) = USUARIO
    /\ res.id \in DOMAIN reservas
    /\ reservas[res.id].userId # res.actor
    /\ reservas[res.id].status = ENVIADA

====
